---- MODULE Spec2Model ----
(***************************************************************************)
(* Model of the COVID-19 research dashboard (src/app.py): a Streamlit      *)
(* script that loads a CSV of paper metadata through a memoised loader,    *)
(* filters it by year / journal / source, and computes the aggregate views *)
(* of six tabs.  Every script run (the first one and each rerun caused by  *)
(* a user interaction) is one step of the model.                           *)
(*                                                                         *)
(* Texts are sequences of one-character strings so that lower-casing,      *)
(* whitespace splitting, regular-expression tokenising and date parsing    *)
(* are computed, character by character, as the library calls do.          *)
(*                                                                         *)
(* CHOOSE r \in { e(x) : x \in {a} } : TRUE stands for "let x be the value  *)
(* of a in e(x)": it binds x to a value that is computed once, where a     *)
(* LET would compute a again at every use of x.                            *)
(***************************************************************************)
EXTENDS Integers, Sequences, FiniteSets, TLC

(***************************************************************************)
(* Characters                                                              *)
(***************************************************************************)
LowerChars ==
  << "a","b","c","d","e","f","g","h","i","j","k","l","m",
     "n","o","p","q","r","s","t","u","v","w","x","y","z" >>

UpperChars ==
  << "A","B","C","D","E","F","G","H","I","J","K","L","M",
     "N","O","P","Q","R","S","T","U","V","W","X","Y","Z" >>

DigitChars == << "0","1","2","3","4","5","6","7","8","9" >>

Range(f) == { f[i] : i \in DOMAIN f }

Digits == Range(DigitChars)

Spaces == {" ", "\t", "\n"}

\* the regular-expression class \w: letters, digits and the underscore
WordChars ==
  Range(LowerChars) \cup Range(UpperChars) \cup Range(DigitChars) \cup {"_"}

IsDigit(c) == c \in Digits

\* str.isspace for the characters of the model
IsSpace(c) == c \in Spaces

IsWordChar(c) == c \in WordChars

DigitVal(c) == (CHOOSE i \in 1..10 : DigitChars[i] = c) - 1

\* str.lower on one character
LowerOf == [c \in Range(UpperChars) |-> LowerChars[CHOOSE i \in 1..26 : UpperChars[i] = c]]

LowerChar(c) == IF c \in DOMAIN LowerOf THEN LowerOf[c] ELSE c

\* str.lower
Lower(s) == [i \in 1..Len(s) |-> LowerChar(s[i])]

\* bool(s.strip()): some character of s is not whitespace
StripNonEmpty(s) == \E i \in 1..Len(s) : ~IsSpace(s[i])

(***************************************************************************)
(* Boolean indexing, seq[mask]: the entries of seq whose mask entry is     *)
(* true, in their order.  The range lo..hi is taken half by half.          *)
(***************************************************************************)
RECURSIVE TakeRange(_, _, _, _)
TakeRange(seq, mask, lo, hi) ==
  IF lo > hi THEN << >>
  ELSE IF lo = hi THEN (IF mask[lo] THEN << seq[lo] >> ELSE << >>)
  ELSE CHOOSE r \in
         { TakeRange(seq, mask, lo, m) \o TakeRange(seq, mask, m + 1, hi)
           : m \in {(lo + hi) \div 2} } : TRUE

TakeWhere(seq, mask) ==
  CHOOSE r \in
    { TakeRange(v, m, 1, Len(v)) : v \in {seq \o << >>}, m \in {mask \o << >>} } : TRUE

(***************************************************************************)
(* str.split() with no separator: the maximal runs of non-whitespace       *)
(* characters, scanned left to right.                                      *)
(***************************************************************************)
RECURSIVE SplitFrom(_, _, _)
SplitFrom(s, i, cur) ==
  IF i > Len(s)
    THEN IF cur = << >> THEN << >> ELSE << cur >>
    ELSE IF IsSpace(s[i])
      THEN IF cur = << >>
             THEN SplitFrom(s, i + 1, << >>)
             ELSE << cur >> \o SplitFrom(s, i + 1, << >>)
      ELSE SplitFrom(s, i + 1, Append(cur, s[i]))

Split(s) == SplitFrom(s, 1, << >>)

(***************************************************************************)
(* re.findall(r"\b\w+\b", s): at each position the pattern needs a word    *)
(* boundary, then takes word characters greedily, then needs a boundary.   *)
(***************************************************************************)
\* \b between position i-1 and i (1-based, i in 1..Len(s)+1)
Boundary(s, i) ==
  LET before == i > 1 /\ IsWordChar(s[i - 1])
      after  == i <= Len(s) /\ IsWordChar(s[i])
  IN  before # after

RECURSIVE RunEnd(_, _)
\* first position after the greedy \w+ that starts at i
RunEnd(s, i) ==
  IF i <= Len(s) /\ IsWordChar(s[i]) THEN RunEnd(s, i + 1) ELSE i

\* The pattern \b\w+\b matches at position i: a boundary, word characters
\* taken greedily, a boundary.
MatchesAt(s, i) ==
  Boundary(s, i) /\ IsWordChar(s[i]) /\ Boundary(s, RunEnd(s, i))

\* re.findall(r"\b\w+\b", s).  The scan goes left to right and resumes
\* after each match; no match can start inside an earlier one (there is no
\* boundary inside a run of word characters), so the matches are those at
\* the positions where the pattern matches, in order.
FindWordsIn(s) ==
  CHOOSE r \in
    { [k \in 1..Len(starts) |->
         SubSeq(s, starts[k], RunEnd(s, starts[k]) - 1)] \o << >>
      : starts \in
          {TakeWhere([i \in 1..Len(s) |-> i],
                     [i \in 1..Len(s) |-> MatchesAt(s, i)])} } : TRUE

FindWords(s) == CHOOSE r \in { FindWordsIn(v) : v \in {s \o << >>} } : TRUE

(***************************************************************************)
(* Cell values.  Every cell has the same shape so that any two cells can   *)
(* be compared: k is the kind, s the text of a string, n the number.       *)
(* A date is held as the number yyyymmdd.                                  *)
(***************************************************************************)
NaN == [k |-> "nan", s |-> << >>, n |-> 0]

NaT == [k |-> "nat", s |-> << >>, n |-> 0]

Str(t) == [k |-> "str", s |-> t, n |-> 0]

Num(x) == [k |-> "num", s |-> << >>, n |-> x]

Date(y, m, d) == [k |-> "date", s |-> << >>, n |-> y * 10000 + m * 100 + d]

\* Series.isnull / dropna: NaN and NaT are the missing values
IsNull(v) == v.k \in {"nan", "nat"}

\* The == of Python and pandas: a missing value equals nothing (not even
\* itself), and a string never equals a number.
PyEq(a, b) == ~IsNull(a) /\ ~IsNull(b) /\ a.k = b.k /\ a = b

(***************************************************************************)
(* pd.to_datetime(..., errors="coerce") on one cell: a text in the form    *)
(* YYYY-MM-DD naming a calendar day becomes that date; a missing cell or   *)
(* any other text becomes NaT.                                             *)
(***************************************************************************)
IsLeap(y) == (y % 4 = 0 /\ y % 100 # 0) \/ y % 400 = 0

DaysIn(y, m) ==
  IF m = 2 THEN (IF IsLeap(y) THEN 29 ELSE 28)
  ELSE IF m \in {4, 6, 9, 11} THEN 30 ELSE 31

DigitsAt(s, i, j) == \A p \in i..j : IsDigit(s[p])

RECURSIVE NumberAt(_, _, _)
NumberAt(s, i, j) ==
  IF j < i THEN 0 ELSE NumberAt(s, i, j - 1) * 10 + DigitVal(s[j])

ParseDate(s) ==
  IF Len(s) = 10 /\ s[5] = "-" /\ s[8] = "-"
     /\ DigitsAt(s, 1, 4) /\ DigitsAt(s, 6, 7) /\ DigitsAt(s, 9, 10)
    THEN LET y == NumberAt(s, 1, 4)
             m == NumberAt(s, 6, 7)
             d == NumberAt(s, 9, 10)
         IN  IF y >= 1 /\ m \in 1..12 /\ d \in 1..DaysIn(y, m)
               THEN Date(y, m, d)
               ELSE NaT
    ELSE NaT

ToDatetimeCell(v) == IF v.k = "str" THEN ParseDate(v.s) ELSE NaT

\* A to_datetime that gives up on the whole column when one cell is bad.
ToDatetimeAllOrNothing(col) ==
  IF \E i \in 1..Len(col) : col[i].k = "str" /\ ParseDate(col[i].s) = NaT
    THEN [i \in 1..Len(col) |-> NaT]
    ELSE [i \in 1..Len(col) |-> ToDatetimeCell(col[i])]

\* pd.to_datetime(column, errors="coerce"): cell by cell
ToDatetime(col) == [i \in 1..Len(col) |-> ToDatetimeCell(col[i])]

\* Series.dt.year: the year of a date, NaN for NaT
DtYear(v) == IF v.k = "date" THEN Num(v.n \div 10000) ELSE NaN

\* Series.astype(str) on one cell: a missing cell becomes the text "nan"
AsTypeStr(v) == IF v.k = "str" THEN v.s ELSE << "n", "a", "n" >>

\* lambda x: len(x.split())
WordCount(x) == Len(Split(x))

Column(rows, c) == [i \in 1..Len(rows) |-> rows[i][c]]

(***************************************************************************)
(* load_data(path) without its cache: read the table, parse the dates,     *)
(* derive PublicationYear and abstractWordCount.  A table is               *)
(* [source_col, rows]: whether it has a source_x column, and its rows.     *)
(***************************************************************************)
LoadFrame(file) ==
  LET dates == ToDatetime(Column(file.rows, "publish_time"))
  IN  [source_col |-> file.source_col,
       rows |-> [i \in 1..Len(file.rows) |->
                  [title             |-> file.rows[i].title,
                   abstract          |-> file.rows[i].abstract,
                   journal           |-> file.rows[i].journal,
                   source_x          |-> file.rows[i].source_x,
                   publish_time      |-> dates[i],
                   PublicationYear   |-> DtYear(dates[i]),
                   abstractWordCount |->
                     Num(WordCount(AsTypeStr(file.rows[i].abstract)))]]]

(***************************************************************************)
(* Sequence helpers of pandas and the standard library                     *)
(***************************************************************************)
\* Series.head(n) and the [:n] of Counter.most_common(n)
Head_n(seq, n) ==
  CHOOSE r \in { SubSeq(v, 1, IF Len(v) < n THEN Len(v) ELSE n) : v \in {seq} } : TRUE

RECURSIVE DropNa(_)
\* Series.dropna
DropNa(col) ==
  IF col = << >> THEN << >>
  ELSE IF IsNull(col[1]) THEN DropNa(Tail(col))
       ELSE << col[1] >> \o DropNa(Tail(col))

\* collections.Counter over the values xs: a [value, count] entry per
\* distinct value, in the order in which each was first met (dict insertion
\* order)
CounterOf(xs) ==
  CHOOSE r \in
    { [k \in 1..Len(keys) |->
         [value |-> keys[k],
          count |-> Cardinality({j \in 1..Len(xs) : xs[j] = keys[k]})]] \o << >>
      : keys \in
          {TakeWhere(xs, [i \in 1..Len(xs) |->
                            \A j \in 1..(i - 1) : xs[j] # xs[i]])} } : TRUE

\* collections.Counter(xs)
Counter(xs) == CHOOSE r \in { CounterOf(v) : v \in {xs \o << >>} } : TRUE

\* Series.unique: the distinct values in order of first appearance
Unique(col) ==
  CHOOSE r \in { [i \in 1..Len(c) |-> c[i].value] : c \in {Counter(col)} } : TRUE

\* the entries with count c, in the reverse of the order they have in items
BucketReversed(items, c) ==
  CHOOSE r \in
    { [k \in 1..Len(b) |-> b[Len(b) + 1 - k]] \o << >>
      : b \in {TakeWhere(items, [i \in 1..Len(items) |-> items[i].count = c])} } : TRUE

\* the entries with count c, in the order they have in items
Bucket(items, c) ==
  TakeWhere(items, [i \in 1..Len(items) |-> items[i].count = c])

RECURSIVE BucketsFrom(_, _)
\* the buckets of counts c, c-1, ..., 1, one after the other
BucketsFrom(items, c) ==
  IF c < 1 THEN << >> ELSE Bucket(items, c) \o BucketsFrom(items, c - 1)

\* the largest of a set of numbers, 0 for the empty set
Largest(S) == IF S = {} THEN 0 ELSE CHOOSE x \in S : \A y \in S : y <= x

\* sorted(items, key=count, reverse=True): counts descending, and the sort
\* is stable, so entries of equal count keep their order
SortedByCount(items) ==
  CHOOSE r \in
    { BucketsFrom(v, Largest({v[i].count : i \in 1..Len(v)}))
      : v \in {items \o << >>} } : TRUE

\* Counter.most_common(n): sorted(items, key=count, reverse=True)[:n]; the
\* sort is stable, so equal counts stay in first-met order
MostCommon(counter, n) == Head_n(SortedByCount(counter), n)

\* Series.value_counts(): missing values dropped, counts descending
ValueCounts(col) == SortedByCount(Counter(DropNa(col)))

RECURSIVE InsertByValue(_, _)
InsertByValue(sorted, e) ==
  IF sorted = << >> THEN << e >>
  ELSE IF sorted[1].value.n <= e.value.n
    THEN << sorted[1] >> \o InsertByValue(Tail(sorted), e)
    ELSE << e >> \o sorted

RECURSIVE SortIndexAcc(_, _)
SortIndexAcc(acc, items) ==
  IF items = << >> THEN acc
  ELSE SortIndexAcc(InsertByValue(acc, items[1]), Tail(items))

\* Series.sort_index() of a tally keyed by numbers: keys ascending
SortIndex(items) == SortIndexAcc(<< >>, items)

RECURSIVE InsertAscending(_, _)
InsertAscending(sorted, v) ==
  IF sorted = << >> THEN << v >>
  ELSE IF sorted[1].n <= v.n
    THEN << sorted[1] >> \o InsertAscending(Tail(sorted), v)
    ELSE << v >> \o sorted

RECURSIVE SortedAcc(_, _)
SortedAcc(acc, vals) ==
  IF vals = << >> THEN acc
  ELSE SortedAcc(InsertAscending(acc, vals[1]), Tail(vals))

\* sorted(numbers)
Sorted(vals) == SortedAcc(<< >>, vals)

RECURSIVE Join(_, _)
\* sep.join(texts)
Join(sep, texts) ==
  IF texts = << >> THEN << >>
  ELSE IF Len(texts) = 1 THEN texts[1]
       ELSE texts[1] \o sep \o Join(sep, Tail(texts))

(***************************************************************************)
(* Sidebar filters                                                         *)
(***************************************************************************)
\* the "All" entry put in front of every selectbox's options
All == Str(<< "A", "l", "l" >>)

\* years = sorted(df["PublicationYear"].dropna().unique())
YearsOf(d) == Sorted(Unique(DropNa(Column(d.rows, "PublicationYear"))))

\* journal_options = df["journal"].dropna().unique()
JournalOptionsOf(d) == Unique(DropNa(Column(d.rows, "journal")))

\* source_options = df["source_x"].dropna().unique() if the column exists, else []
SourceOptionsOf(d) ==
  IF d.source_col THEN Unique(DropNa(Column(d.rows, "source_x"))) ELSE << >>

\* options=["All"] + list(values)
Options(values) == << All >> \o values

\* st.selectbox: the option at the index the widget holds
Selectbox(options, index) == options[index]

\* the widget keeps its index across a rerun while its options are the same,
\* and starts again at its first option when they are not
KeptIndex(oldOptions, oldIndex, newOptions) ==
  IF newOptions = oldOptions THEN oldIndex ELSE 1

\* frame[column] == value, row by row
EqMask(rows, c, v) == [i \in 1..Len(rows) |-> PyEq(rows[i][c], v)]

\* A frame[mask] that starts one row late.
BoolIndexFromSecond(d, mask) ==
  [source_col |-> d.source_col,
   rows |-> TakeRange(d.rows, mask, 2, Len(d.rows))]

\* frame[mask]: a new frame of the rows whose mask entry is true, in order
BoolIndex(d, mask) ==
  [source_col |-> d.source_col, rows |-> TakeWhere(d.rows, mask)]

\* selected != "All"
NotAll(selected) == ~PyEq(selected, All)

\* Filters in which the journal mask is taken over df, not filtered_df.
ApplyFiltersJournalOnDf(d, year, journal, source) ==
  LET f1 == IF NotAll(year)
              THEN BoolIndex(d, EqMask(d.rows, "PublicationYear", year))
              ELSE d
      f2 == IF NotAll(journal)
              THEN BoolIndex(d, EqMask(d.rows, "journal", journal))
              ELSE f1
      f3 == IF NotAll(source)
              THEN BoolIndex(f2, EqMask(f2.rows, "source_x", source))
              ELSE f2
  IN  [df |-> d, filtered_df |-> f3]

\* Filters that work on df itself (no copy, rows dropped in place).
ApplyFiltersInPlace(d, year, journal, source) ==
  LET f1 == IF NotAll(year)
              THEN BoolIndex(d, EqMask(d.rows, "PublicationYear", year))
              ELSE d
      f2 == IF NotAll(journal)
              THEN BoolIndex(f1, EqMask(f1.rows, "journal", journal))
              ELSE f1
      f3 == IF NotAll(source)
              THEN BoolIndex(f2, EqMask(f2.rows, "source_x", source))
              ELSE f2
  IN  [df |-> f3, filtered_df |-> f3]

\* Lines 42-48.  Only the name filtered_df is (re)bound, each time to a new
\* frame; the result gives both names as they stand after line 48.
ApplyFilters(d, year, journal, source) ==
  LET f0 == d
      f1 == IF NotAll(year)
              THEN BoolIndex(f0, EqMask(f0.rows, "PublicationYear", year))
              ELSE f0
      f2 == IF NotAll(journal)
              THEN BoolIndex(f1, EqMask(f1.rows, "journal", journal))
              ELSE f1
      f3 == IF NotAll(source)
              THEN BoolIndex(f2, EqMask(f2.rows, "source_x", source))
              ELSE f2
  IN  [df |-> d, filtered_df |-> f3]

(***************************************************************************)
(* Tab 2: dataset info                                                     *)
(***************************************************************************)
ColumnsOf(d) ==
  << "title", "abstract", "journal" >>
  \o (IF d.source_col THEN << "source_x" >> ELSE << >>)
  \o << "publish_time", "PublicationYear", "abstractWordCount" >>

TextColumns == {"title", "abstract", "journal", "source_x"}

NullCount(d, c) == Cardinality({i \in 1..Len(d.rows) : IsNull(d.rows[i][c])})

RECURSIVE KeepPositive(_)
KeepPositive(items) ==
  IF items = << >> THEN << >>
  ELSE IF items[1].count > 0 THEN << items[1] >> \o KeepPositive(Tail(items))
       ELSE KeepPositive(Tail(items))

\* frame.isnull().sum() restricted to the columns with a count above zero
MissingCounts(d) ==
  LET cols == ColumnsOf(d)
  IN  KeepPositive([i \in 1..Len(cols) |->
                      [value |-> cols[i], count |-> NullCount(d, cols[i])]])

\* frame.describe(include="all"), the whole-number entries of each column:
\* count for all; unique, top and freq for text columns; min and max for the
\* others (mean, std and the quartiles are not whole numbers and are left out)
DescribeColumn(d, c) ==
  LET present == DropNa(Column(d.rows, c))
      ranked  == ValueCounts(present)
      ordered == Sorted(present)
      isText  == c \in TextColumns
  IN  [column |-> c,
       count  |-> Len(present),
       unique |-> IF isText /\ present # << >> THEN Num(Len(ranked)) ELSE NaN,
       top    |-> IF isText /\ present # << >> THEN ranked[1].value ELSE NaN,
       freq   |-> IF isText /\ present # << >> THEN Num(ranked[1].count) ELSE NaN,
       min    |-> IF ~isText /\ present # << >> THEN ordered[1] ELSE NaN,
       max    |-> IF ~isText /\ present # << >> THEN ordered[Len(ordered)] ELSE NaN]

Describe(d) ==
  LET cols == ColumnsOf(d) IN [i \in 1..Len(cols) |-> DescribeColumn(d, cols[i])]

\* Lines 96-97 and 103: the frame the tab's two summaries are computed from
Tab2Frame(d, filtered) == d

(***************************************************************************)
(* Tabs 3 to 6                                                             *)
(***************************************************************************)
\* filtered_df["PublicationYear"].value_counts().sort_index()
PapersPerYear(filtered) ==
  SortIndex(ValueCounts(Column(filtered.rows, "PublicationYear")))

TopJournalsLimit == 10

\* filtered_df["journal"].value_counts().head(10)
TopJournals(filtered) ==
  Head_n(ValueCounts(Column(filtered.rows, "journal")), TopJournalsLimit)

\* " ".join(filtered_df["title"].dropna().astype(str))
AllTitles(filtered) ==
  LET titles == DropNa(Column(filtered.rows, "title"))
  IN  Join(<< " " >>, [i \in 1..Len(titles) |-> AsTypeStr(titles[i])])

\* filtered_df["source_x"].value_counts()
SourceCounts(filtered) == ValueCounts(Column(filtered.rows, "source_x"))

WordLimit == 20

\* Counter(re.findall(r"\b\w+\b", all_titles.lower())).most_common(20)
WordCounts(text) == MostCommon(Counter(FindWords(Lower(text))), WordLimit)

(***************************************************************************)
(* WordCloud(...).generate(text) of the wordcloud library with its         *)
(* defaults: the text is cut into words, words made of digits only and     *)
(* stop words are dropped, and the call raises ValueError ("We need at     *)
(* least 1 word to plot a word cloud") when no word is left.               *)
(***************************************************************************)
\* some of the library's STOPWORDS; the titles of this model hold no other
StopWords ==
  { << "a" >>, << "i" >>, << "a", "m" >>, << "a", "n" >>, << "a", "s" >>,
    << "a", "t" >>, << "o", "f" >>, << "i", "n" >>, << "t", "h", "e" >>,
    << "a", "n", "d" >> }

Unplotted(w) == DigitsAt(w, 1, Len(w)) \/ Lower(w) \in StopWords

WordCloudWords(text) ==
  CHOOSE r \in
    { TakeWhere(ws, [i \in 1..Len(ws) |-> ~Unplotted(ws[i])])
      : ws \in {FindWords(text)} } : TRUE

\* TRUE when generate(text) raises
WordCloudRaises(text) == WordCloudWords(text) = << >>

(***************************************************************************)
(* The panels of tabs 3 to 6.  Each is "chart" or "table" when its result  *)
(* is drawn, "warning" when st.warning is shown instead, "error" when it   *)
(* raised, "skipped" when the script stopped at an earlier exception, and  *)
(* "absent" for the source panel of a table without a source_x column.     *)
(***************************************************************************)
\* Lines 147-154.
Tab5Panel(text) ==
  IF StripNonEmpty(text)
    THEN IF WordCloudRaises(text) THEN "error" ELSE "chart"
    ELSE "warning"

\* Lines 159-182.  An exception in tab 5 has ended the script before them.
Tab6(f, ppy, tj, text, tab5) ==
  CHOOSE r \in
    { [papers_per_year |-> ppy,
       top_journals    |-> tj,
       all_titles      |-> text,
       source_counts   |-> sc,
       word_counts     |-> wc,
       panels |->
         [tab3 |-> IF ppy # << >> THEN "chart" ELSE "warning",
          tab4 |-> IF tj # << >> THEN "chart" ELSE "warning",
          tab5 |-> tab5,
          tab6_source |->
            IF tab5 = "error" THEN "skipped"
            ELSE IF ~f.source_col THEN "absent"
            ELSE IF sc # << >> THEN "chart" ELSE "warning",
          tab6_words |->
            IF tab5 = "error" THEN "skipped"
            ELSE IF wc # << >> THEN "table" ELSE "warning"]]
      : sc \in {IF tab5 # "error" /\ f.source_col THEN SourceCounts(f) ELSE << >>},
        wc \in {IF tab5 # "error" THEN WordCounts(text) ELSE << >>} } : TRUE

\* Lines 143-182.
Tabs5and6(f, ppy, tj, text) ==
  CHOOSE r \in { Tab6(f, ppy, tj, text, tab5) : tab5 \in {Tab5Panel(text)} } : TRUE

\* Lines 108-182: the views of tabs 3 to 6 over the filtered frame f.
Tabs3to6(f) ==
  CHOOSE r \in
    { Tabs5and6(f, ppy, tj, text)
      : ppy \in {PapersPerYear(f)}, tj \in {TopJournals(f)},
        text \in {AllTitles(f)} } : TRUE

(***************************************************************************)
(* @st.cache_data on load_data: the result is memoised under the call's    *)
(* argument; reads counts the pd.read_csv calls made for each path.        *)
(***************************************************************************)
\* A loader that reads the file on every call.
CachedLoadNoMemo(c, r, fs, p) ==
  LET v == LoadFrame(fs[p])
  IN  [value |-> v,
       cache |-> [q \in DOMAIN c \cup {p} |-> IF q = p THEN v ELSE c[q]],
       reads |-> [r EXCEPT ![p] = @ + 1]]

CachedLoad(c, r, fs, p) ==
  IF p \in DOMAIN c
    THEN [value |-> c[p], cache |-> c, reads |-> r]
    ELSE LET v == LoadFrame(fs[p])
         IN  [value |-> v,
              cache |-> [q \in DOMAIN c \cup {p} |-> IF q = p THEN v ELSE c[q]],
              reads |-> [r EXCEPT ![p] = @ + 1]]

(***************************************************************************)
(* The tables on disk                                                      *)
(***************************************************************************)
MaxRows == 2

MainPath == "metadata_subset.csv"

OtherPath == "other.csv"

Paths == {MainPath, OtherPath}

Row(title, abstract, journal, source, date) ==
  [title |-> title, abstract |-> abstract, journal |-> journal,
   source_x |-> source, publish_time |-> date]

T_Nature == << "N", "a", "t", "u", "r", "e" >>

T_Lancet == << "L", "a", "n", "c", "e", "t" >>

T_PMC == << "P", "M", "C" >>

T_WHO == << "W", "H", "O" >>

T_Covid == << "C", "O", "V", "I", "D", "-", "1", "9", " ", "v", "a", "c", "c", "i", "n", "e", " ", "s", "t", "u", "d", "y", " ", "C", "O", "V", "I", "D", "-", "1", "9" >>

\* 22 words, 21 of them distinct once lower-cased
T_Many ==
  << "a", "a", " ", "a", "b", " ", "a", "c", " ", "a", "d", " ",
     "a", "e", " ", "a", "f", " ", "a", "g", " ", "a", "h", " ",
     "a", "i", " ", "a", "j", " ", "a", "k", " ", "a", "l", " ",
     "a", "m", " ", "a", "n", " ", "a", "o", " ", "a", "p", " ",
     "a", "q", " ", "a", "r", " ", "a", "s", " ", "a", "t", " ",
     "a", "u", " ", "A", "U" >>

T_NotADate == << "n", "o", "t", "-", "a", "-", "d", "a", "t", "e" >>

RowCovid ==
  Row(Str(T_Covid), Str(<< "T", "w", "o", " ", "w", "o", "r", "d", "s" >>), Str(T_Nature), Str(T_PMC),
      Str(<< "2", "0", "2", "0", "-", "0", "3", "-", "1", "4" >>))

RowBlank == Row(NaN, NaN, NaN, NaN, Str(T_NotADate))

RowDash ==
  Row(Str(<< "-" >>), Str(<< " " >>), All, All,
      Str(<< "2", "0", "1", "9", "-", "1", "2", "-", "0", "1" >>))

RowSpace ==
  Row(Str(<< " " >>), Str(<< "x" >>), Str(T_Lancet), Str(T_PMC), NaN)

RowMany ==
  Row(Str(T_Many), NaN, Str(T_Nature), Str(T_WHO),
      Str(<< "2", "0", "2", "0", "-", "0", "2", "-", "2", "9" >>))

RowPool == {RowCovid, RowBlank, RowDash, RowSpace, RowMany}

RowSeqs == UNION { [1..n -> RowPool] : n \in 0..MaxRows }

\* without a source_x column the rows carry no source
NoSource(rows) == [i \in 1..Len(rows) |-> [rows[i] EXCEPT !.source_x = NaN]]

FilePool ==
  { [source_col |-> TRUE, rows |-> rs] : rs \in RowSeqs }
  \cup { [source_col |-> FALSE, rows |-> NoSource(rs)] : rs \in RowSeqs }

OtherFile == [source_col |-> TRUE, rows |-> << RowSpace >>]

(***************************************************************************)
(* State                                                                   *)
(***************************************************************************)
VARIABLES
  files,            \* the table stored under each path
  path,             \* the argument of load_data on line 25
  cache,            \* st.cache_data's entries: path -> loaded frame
  reads,            \* pd.read_csv calls made so far, per path
  df,               \* line 25
  years,            \* line 32
  journal_options,  \* line 35
  source_options,   \* line 38
  year_index,       \* the three selectboxes' widget state
  journal_index,
  source_index,
  selected_year,    \* line 33
  selected_journal, \* line 36
  selected_source,  \* line 39
  filtered_df,      \* lines 42-48
  missing,          \* lines 96-97
  describe,         \* line 103
  papers_per_year,  \* line 110
  top_journals,     \* line 127
  all_titles,       \* line 145
  source_counts,    \* line 162
  word_counts,      \* line 178
  panels            \* what each panel of tabs 3-6 showed

vars ==
  << files, path, cache, reads, df, years, journal_options, source_options,
     year_index, journal_index, source_index,
     selected_year, selected_journal, selected_source, filtered_df,
     missing, describe, papers_per_year, top_journals, all_titles,
     source_counts, word_counts, panels >>

(***************************************************************************)
(* One run of the script, lines 25-182, as a record of what it leaves      *)
(* behind.  c, r, fs: the cache, the read counts and the disk; p: the      *)
(* path; old: the options and indices of the three selectboxes before the  *)
(* run (indices as the user left them).                                    *)
(***************************************************************************)
\* Lines 42-182, with the frame loaded and the widgets settled.
ScriptFromFilters(ld, ys, js, ss, yi, ji, si, fl) ==
  CHOOSE res \in
    { [cache |-> ld.cache, reads |-> ld.reads, df |-> fl.df,
       years |-> ys, journal_options |-> js, source_options |-> ss,
       year_index |-> yi, journal_index |-> ji, source_index |-> si,
       selected_year    |-> Selectbox(Options(ys), yi),
       selected_journal |-> Selectbox(Options(js), ji),
       selected_source  |-> Selectbox(Options(ss), si),
       filtered_df      |-> fl.filtered_df,
       missing          |-> MissingCounts(t2),
       describe         |-> Describe(t2),
       papers_per_year  |-> tabs.papers_per_year,
       top_journals     |-> tabs.top_journals,
       all_titles       |-> tabs.all_titles,
       source_counts    |-> tabs.source_counts,
       word_counts      |-> tabs.word_counts,
       panels           |-> tabs.panels]
      : t2 \in {Tab2Frame(fl.df, fl.filtered_df)},
        tabs \in {Tabs3to6(fl.filtered_df)} } : TRUE

\* Lines 33-182, with the three option lists computed.
ScriptFromWidgets(ld, old, ys, js, ss) ==
  CHOOSE res \in
    { ScriptFromFilters(ld, ys, js, ss, yi, ji, si,
                        ApplyFilters(ld.value,
                                     Selectbox(Options(ys), yi),
                                     Selectbox(Options(js), ji),
                                     Selectbox(Options(ss), si)))
      : yi \in {KeptIndex(old.year_options, old.year_index, Options(ys))},
        ji \in {KeptIndex(old.journal_options, old.journal_index, Options(js))},
        si \in {KeptIndex(old.source_options, old.source_index, Options(ss))} } : TRUE

\* Lines 32-182, with the frame loaded.
ScriptFromSidebar(ld, old) ==
  CHOOSE res \in
    { ScriptFromWidgets(ld, old, ys, js, ss)
      : ys \in {YearsOf(ld.value)}, js \in {JournalOptionsOf(ld.value)},
        ss \in {SourceOptionsOf(ld.value)} } : TRUE

Script(c, r, fs, p, old) ==
  CHOOSE res \in
    { ScriptFromSidebar(ld, w) : ld \in {CachedLoad(c, r, fs, p)}, w \in {old} } : TRUE

\* the widgets as they stand, with the indices the next run starts from
Widgets(yi, ji, si) ==
  [year_options |-> Options(years), year_index |-> yi,
   journal_options |-> Options(journal_options), journal_index |-> ji,
   source_options |-> Options(source_options), source_index |-> si]

\* the widgets of a session that has not run yet: every selectbox on "All"
FreshWidgets ==
  [year_options |-> << >>, year_index |-> 1,
   journal_options |-> << >>, journal_index |-> 1,
   source_options |-> << >>, source_index |-> 1]

\* The first run of the script over a table of pool under MainPath.
InitFrom(pool) ==
  \E f \in pool :
    LET fs == [p \in Paths |-> IF p = MainPath THEN f ELSE OtherFile]
    IN  \E run \in {Script(<< >>, [p \in Paths |-> 0], fs, MainPath, FreshWidgets)} :
        /\ files = fs
        /\ path = MainPath
        /\ cache = run.cache
        /\ reads = run.reads
        /\ df = run.df
        /\ years = run.years
        /\ journal_options = run.journal_options
        /\ source_options = run.source_options
        /\ year_index = run.year_index
        /\ journal_index = run.journal_index
        /\ source_index = run.source_index
        /\ selected_year = run.selected_year
        /\ selected_journal = run.selected_journal
        /\ selected_source = run.selected_source
        /\ filtered_df = run.filtered_df
        /\ missing = run.missing
        /\ describe = run.describe
        /\ papers_per_year = run.papers_per_year
        /\ top_journals = run.top_journals
        /\ all_titles = run.all_titles
        /\ source_counts = run.source_counts
        /\ word_counts = run.word_counts
        /\ panels = run.panels

Init == InitFrom(FilePool)

\* A rerun of the script with path p and the widgets w.
Rerun(p, w) ==
  \E run \in {Script(cache, reads, files, p, w)} :
      /\ path' = p
      /\ cache' = run.cache
      /\ reads' = run.reads
      /\ df' = run.df
      /\ years' = run.years
      /\ journal_options' = run.journal_options
      /\ source_options' = run.source_options
      /\ year_index' = run.year_index
      /\ journal_index' = run.journal_index
      /\ source_index' = run.source_index
      /\ selected_year' = run.selected_year
      /\ selected_journal' = run.selected_journal
      /\ selected_source' = run.selected_source
      /\ filtered_df' = run.filtered_df
      /\ missing' = run.missing
      /\ describe' = run.describe
      /\ papers_per_year' = run.papers_per_year
      /\ top_journals' = run.top_journals
      /\ all_titles' = run.all_titles
      /\ source_counts' = run.source_counts
      /\ word_counts' = run.word_counts
      /\ panels' = run.panels
      /\ UNCHANGED files

\* The user picks another entry of the year selectbox.
SelectYear ==
  \E i \in 1..Len(Options(years)) :
    /\ i # year_index
    /\ Rerun(path, Widgets(i, journal_index, source_index))

\* The user picks another entry of the journal selectbox.
SelectJournal ==
  \E i \in 1..Len(Options(journal_options)) :
    /\ i # journal_index
    /\ Rerun(path, Widgets(year_index, i, source_index))

\* The user picks another entry of the source selectbox.
SelectSource ==
  \E i \in 1..Len(Options(source_options)) :
    /\ i # source_index
    /\ Rerun(path, Widgets(year_index, journal_index, i))

\* Line 25 is pointed at another file ("Change path if needed"); the script
\* reruns and the widgets keep what they can.
ChangePath ==
  \E p \in Paths :
    /\ p # path
    /\ Rerun(p, Widgets(year_index, journal_index, source_index))

\* The table under a path changes on disk (here: it loses its last row).
\* Nothing of the running app is touched.
EditFile ==
  \E p \in Paths :
    /\ files[p].rows # << >>
    /\ files' = [q \in Paths |->
                   IF q = p
                     THEN [source_col |-> files[p].source_col,
                           rows |-> SubSeq(files[p].rows, 1, Len(files[p].rows) - 1)]
                     ELSE files[q]]
    /\ UNCHANGED << path, cache, reads, df, years, journal_options,
                    source_options, year_index, journal_index, source_index,
                    selected_year, selected_journal, selected_source,
                    filtered_df, missing, describe, papers_per_year,
                    top_journals, all_titles, source_counts, word_counts,
                    panels >>

\* The app as written: line 25 names one file, and the user works the filters.
Next == SelectYear \/ SelectJournal \/ SelectSource

Spec == Init /\ [][Next]_vars

\* The loader under a path that changes and files that change on disk.
LoaderPool ==
  { [source_col |-> TRUE, rows |-> rs] :
      rs \in UNION { [1..n -> {RowCovid, RowDash}] : n \in 0..MaxRows } }

InitLoader == InitFrom(LoaderPool)

NextLoader ==
  SelectYear \/ SelectJournal \/ SelectSource \/ ChangePath \/ EditFile

SpecLoader == InitLoader /\ [][NextLoader]_vars

(***************************************************************************)
(* Properties                                                              *)
(***************************************************************************)
\* sub holds exactly the entries of seq at the positions idx, in seq's order
IsSubsequenceAt(sub, seq, idx) ==
  /\ Len(sub) = Cardinality(idx)
  /\ \A i \in idx : sub[Cardinality({j \in idx : j <= i})] = seq[i]

\* r meets every criterion that is not the sentinel "All"
MatchesCriteria(r, year, journal, source) ==
  /\ (year = All \/ r.PublicationYear = year)
  /\ (journal = All \/ r.journal = journal)
  /\ (source = All \/ r.source_x = source)

\* C1: the filtered frame is exactly the subsequence of df, in df's order,
\* of the rows whose field equals the selected value for every selection
\* that is not "All" (logical AND); with all three on "All" it equals df.
C1_FilterKeepsExactlyTheMatches ==
  /\ filtered_df.source_col = df.source_col
  /\ IsSubsequenceAt(filtered_df.rows, df.rows,
       {i \in 1..Len(df.rows) :
          MatchesCriteria(df.rows[i], selected_year, selected_journal,
                          selected_source)})
  /\ (selected_year = All /\ selected_journal = All /\ selected_source = All
        => filtered_df = df)

\* two criteria set, some rows kept and some dropped
C1_Witness ==
  /\ selected_year # All
  /\ selected_journal # All
  /\ filtered_df.rows # << >>
  /\ Len(filtered_df.rows) < Len(df.rows)

\* C2: a record whose abstract is absent has abstractWordCount 0; for a
\* present abstract the count is the number of whitespace-separated tokens.
C2_AbsentAbstractCountsZero ==
  \A i \in 1..Len(df.rows) :
    df.rows[i].abstractWordCount =
      Num(IF df.rows[i].abstract = NaN THEN 0
          ELSE Len(Split(df.rows[i].abstract.s)))

\* C3: every aggregate view of a run is computed from the filtered frame.
C3_ViewsOverFilteredSet ==
  /\ missing = MissingCounts(filtered_df)
  /\ describe = Describe(filtered_df)
  /\ papers_per_year = PapersPerYear(filtered_df)
  /\ top_journals = TopJournals(filtered_df)
  /\ (panels.tab6_source \in {"chart", "warning"}
        => source_counts = SourceCounts(filtered_df))
  /\ (panels.tab6_words \in {"table", "warning"}
        => word_counts = WordCounts(AllTitles(filtered_df)))

\* C4: filtering leaves the loaded frame as the loader made it, in content
\* and order, and the same criteria applied to it again give the same
\* filtered frame.
C4_LoadedSetUntouched ==
  \A loaded \in {LoadFrame(files[path])} :
    /\ df = loaded
    /\ cache[path] = loaded
    /\ filtered_df =
         ApplyFilters(loaded, selected_year, selected_journal,
                      selected_source).filtered_df

\* a journal is selected and the filter has dropped rows
C4_Witness ==
  /\ journal_index > 1
  /\ selected_journal # All
  /\ Len(filtered_df.rows) < Len(df.rows)

\* C5: filtering the filtered frame again by the same criteria changes
\* nothing.
C5_FilterIdempotent ==
  ApplyFilters(filtered_df, selected_year, selected_journal,
               selected_source).filtered_df = filtered_df

\* a source is selected, rows were dropped and rows are left
C5_Witness ==
  /\ selected_source # All
  /\ filtered_df.rows # << >>
  /\ Len(filtered_df.rows) < Len(df.rows)

WordOccurrences(s) ==
  { << b, SubSeq(s, b, CHOOSE e \in b..Len(s) :
                         /\ \A k \in b..e : IsWordChar(s[k])
                         /\ (e = Len(s) \/ ~IsWordChar(s[e + 1]))) >>
    : b \in {b \in 1..Len(s) :
               IsWordChar(s[b]) /\ (b = 1 \/ ~IsWordChar(s[b - 1]))} }

\* per distinct word: how often it occurs and where it occurs first
WordStats(occs) ==
  { [word  |-> w,
     count |-> Cardinality({p \in occs : p[2] = w}),
     first |-> CHOOSE b \in {p[1] : p \in {q \in occs : q[2] = w}} :
                 \A p \in occs : p[2] = w => b <= p[1]]
    : w \in {p[2] : p \in occs} }

\* a ranks before b: the larger count, or the same count and met earlier
RanksBefore(a, b) ==
  a.count > b.count \/ (a.count = b.count /\ a.first < b.first)

CovidExample ==
  << [value |-> << "c", "o", "v", "i", "d" >>, count |-> 2],
     [value |-> << "1", "9" >>, count |-> 2],
     [value |-> << "v", "a", "c", "c", "i", "n", "e" >>, count |-> 1],
     [value |-> << "s", "t", "u", "d", "y" >>, count |-> 1] >>

\* C7: the word-frequency table holds the words of the lower-cased titles
\* (maximal runs of word characters), each with its number of occurrences,
\* at most WordLimit of them, ordered by count descending and, among equal
\* counts, by first appearance; every word left out ranks after every word
\* listed; empty or whitespace-only text gives the empty table; and
\* "COVID-19 vaccine study COVID-19" gives covid 2, 19 2, vaccine 1, study 1.
C7_WordFrequencies ==
  panels.tab6_words # "skipped" =>
    \A stats \in {WordStats(WordOccurrences(Lower(all_titles) \o << >>))} :
    \A listed \in
         {[k \in 1..Len(word_counts) |->
             {t \in stats : t.word = word_counts[k].value}] \o << >>} :
      /\ Len(word_counts) =
           (IF Cardinality(stats) < WordLimit
              THEN Cardinality(stats) ELSE WordLimit)
      /\ \A k \in 1..Len(word_counts) :
           \E t \in listed[k] : t.count = word_counts[k].count
      /\ \A k, l \in 1..Len(word_counts) :
           k < l => \A a \in listed[k], b \in listed[l] : RanksBefore(a, b)
      /\ \A t \in stats :
           (\A k \in 1..Len(word_counts) : word_counts[k].value # t.word)
             => \A k \in 1..Len(word_counts) :
                  \A a \in listed[k] : RanksBefore(a, t)
      /\ (~StripNonEmpty(all_titles) => word_counts = << >>)
      /\ (all_titles = T_Covid => word_counts = CovidExample)

\* more distinct words than the table takes, with equal counts among them
C7_Witness ==
  /\ panels.tab6_words = "table"
  /\ Len(word_counts) = WordLimit
  /\ Cardinality({p[2] : p \in WordOccurrences(Lower(all_titles) \o << >>)})
       > WordLimit
  /\ word_counts[2].count = word_counts[3].count

\* C8: a path is read at most once: once a path has an entry in the cache,
\* no step changes the entry or reads the path again; a step reads a file
\* only for the path it switches to; and every run works on the entry of
\* its path.
C8_ReadOncePerSource ==
  [][ /\ \A p \in DOMAIN cache :
           /\ p \in DOMAIN cache'
           /\ cache'[p] = cache[p]
           /\ reads'[p] = reads[p]
      /\ \A p \in Paths :
           /\ reads'[p] <= 1
           /\ (reads'[p] # reads[p] => p = path' /\ p # path)
      /\ df' = cache'[path']
    ]_vars

\* back on the first path after a visit to the other one, with the file of
\* the first path changed on disk since it was read
C8_Witness ==
  /\ path = MainPath
  /\ OtherPath \in DOMAIN cache
  /\ reads[MainPath] = 1
  /\ LoadFrame(files[MainPath]) # df

\* C9: no panel fails: each panel shows its result when its aggregate is
\* non-empty and a warning exactly when it is empty, and an empty filtered
\* frame makes every panel show its warning.
C9_NoPanelFails ==
  /\ panels.tab3 =
       (IF PapersPerYear(filtered_df) # << >> THEN "chart" ELSE "warning")
  /\ panels.tab4 =
       (IF TopJournals(filtered_df) # << >> THEN "chart" ELSE "warning")
  /\ panels.tab5 =
       (IF StripNonEmpty(AllTitles(filtered_df)) THEN "chart" ELSE "warning")
  /\ panels.tab6_source =
       (IF ~filtered_df.source_col THEN "absent"
        ELSE IF SourceCounts(filtered_df) # << >> THEN "chart" ELSE "warning")
  /\ panels.tab6_words =
       (IF WordCounts(AllTitles(filtered_df)) # << >>
          THEN "table" ELSE "warning")
  /\ (filtered_df.rows = << >> =>
        /\ panels.tab3 = "warning"
        /\ panels.tab4 = "warning"
        /\ panels.tab5 = "warning"
        /\ panels.tab6_source \in {"warning", "absent"}
        /\ panels.tab6_words = "warning")

\* C10: an entry of a selectbox other than its first ("All") entry always
\* restricts: the filtered frame is exactly the rows of df whose field
\* equals the chosen entry, for each selectbox not on its first entry.
C10_DataOptionAlwaysRestricts ==
  IsSubsequenceAt(filtered_df.rows, df.rows,
    {i \in 1..Len(df.rows) :
       /\ (year_index = 1
             \/ df.rows[i].PublicationYear = years[year_index - 1])
       /\ (journal_index = 1
             \/ df.rows[i].journal = journal_options[journal_index - 1])
       /\ (source_index = 1
             \/ df.rows[i].source_x = source_options[source_index - 1])})

====
